---- MODULE Spec2Model ----
(***************************************************************************)
(* A model of elmongo (src/lib/elmongo.js): the mongoose plugin that keeps *)
(* an Elasticsearch index in step with a collection, and the cross-        *)
(* collection search entry point elmongo.search with its configuration.    *)
(*                                                                         *)
(* The specifications share the variables:                                 *)
(*   SpecFields    getIndexedFields over schema trees                      *)
(*   SpecSearch    elmongo.search.config and elmongo.search                *)
(*   Spec          the plugin on one model: its save/remove hooks,         *)
(*                 deleteFromIndex and direct calls of index / unindex,    *)
(*                 the requests in flight, the remote service answering    *)
(*                 each request at once, and the callbacks                 *)
(*   SpecRetry     the request/retry sequences: saves and deleteFromIndex  *)
(*                 against a service that may also fail transiently        *)
(*   SpecOptions   one schema behind two models: the closure's options     *)
(*   SpecDefaults  the stored defaults beside every call that reads them   *)
(*   SpecSync      resynchronization jobs; SpecSyncFair adds fairness of   *)
(*                 the job's own steps                                     *)
(* helpers.js and sync.js are not among the sources; what the model needs  *)
(* of them is taken from the specification and marked as such.             *)
(***************************************************************************)
EXTENDS Naturals, Sequences, FiniteSets, TLC

VARIABLES
    tree,               \* schema.tree: the field declarations, in key order
    plugin,             \* position of elmongo(schema, options): none | attached | failed
    indexedFields,      \* the closure variable of line 22
    options,            \* the closure variable `options` of the plugin
    lifecycle,          \* record id -> unsaved | saved | removed (primary store)
    version,            \* record id -> version of the record's value in the primary store
    ops,                \* the index / unindex operations issued so far, in issue order
    esIndex,            \* remote index: record id -> whether a document is held, and the
                        \* version of the record it was serialized from
    hookThrew,          \* a save / remove hook raised an exception
    syncCalls,          \* the sync jobs started by schema.statics.sync, each with the
                        \* options and field set it was handed
    lastModelSearch,    \* the last schema.statics.search call: its model and request
    elasticUrlOptions,  \* the module variable of line 12
    searchOpts,         \* the caller's query descriptor, as the last search left it
    lastSearch,         \* the last elmongo.search call: its inputs and what it did
    lastConfig          \* the last elmongo.search.config call: its inputs and outcome

vars == <<tree, plugin, indexedFields, options, lifecycle, version, ops, esIndex,
          hookThrew, syncCalls, lastModelSearch, elasticUrlOptions, searchOpts, lastSearch,
          lastConfig>>

pluginVars == <<tree, plugin, indexedFields, options, lifecycle, version, ops, esIndex,
                hookThrew, syncCalls, lastModelSearch>>
searchVars == <<elasticUrlOptions, searchOpts, lastSearch, lastConfig>>

(***************************************************************************)
(* Bounds of the model.                                                    *)
(***************************************************************************)
MaxSubKeys == 2         \* sub-keys of an object-valued field declaration
MaxCollections == 2     \* collections listed in a query descriptor
MaxOps == 3             \* index / unindex operations issued in one run
MaxAttempts == 1        \* transient failures one request may meet
MaxSyncs == 1           \* calls of schema.statics.sync in one run
MaxRecords == 3         \* records the cursor of a sync job holds
MaxInFlight == 2        \* writes a sync job keeps in flight

(***************************************************************************)
(* Schema trees.  A field declaration is the JavaScript value              *)
(* schema.tree[k]:                                                         *)
(*   kind "null"    null                      (typeof 'object')            *)
(*   kind "undef"   undefined                                              *)
(*   kind "simple"  a function or primitive   (typeof not 'object')        *)
(*   kind "object"  an object; sub lists the values of its own keys in     *)
(*                  Object.keys order                                      *)
(* flag is the truthiness of the declaration's own es_no_index.  A sub-key *)
(* value is "null" (null or undefined: reading a property of it throws),   *)
(* "plain" (its es_no_index is falsy) or "flagged" (es_no_index truthy).   *)
(***************************************************************************)
FieldNames == <<"f1", "f2">>

SubValues == {"null", "plain", "flagged"}

SeqsUpTo(S, n) == UNION {[1..k -> S] : k \in 0..n}

Decls ==
    {[kind |-> "null", flag |-> FALSE, sub |-> <<>>],
     [kind |-> "undef", flag |-> FALSE, sub |-> <<>>]}
    \cup {[kind |-> "simple", flag |-> f, sub |-> <<>>] : f \in BOOLEAN}
    \cup {[kind |-> "object", flag |-> f, sub |-> s] :
            f \in BOOLEAN, s \in SeqsUpTo(SubValues, MaxSubKeys)}

\* schema.tree as the sequence of its (name, declaration) pairs, for..in order
Trees ==
    UNION {{[i \in 1..k |-> [name |-> FieldNames[i], decl |-> d[i]]] : d \in [1..k -> Decls]} :
             k \in 0..Len(FieldNames)}

\* lines 192-196: the forEach over Object.keys(schema.tree[k]).  The return
\* inside the callback ends one call of the callback, never the loop.
RECURSIVE scanFrom(_, _, _)
scanFrom(sub, i, found) ==
    IF i > Len(sub) THEN (IF found THEN "found" ELSE "notfound")
    ELSE IF sub[i] = "null" THEN "throw"
    ELSE scanFrom(sub, i + 1, found \/ sub[i] = "flagged")

scanSubKeysUnanimous(sub) ==
    IF \E i \in 1..Len(sub) : sub[i] = "null" THEN "throw"
    ELSE IF Len(sub) > 0 /\ \A i \in 1..Len(sub) : sub[i] = "flagged" THEN "found"
    ELSE "notfound"

scanSubKeys(sub) == scanFrom(sub, 1, FALSE)

fieldVerdictIgnoringFlag(decl) ==
    IF decl.kind = "null" \/ decl.kind = "undef" THEN "throw"
    ELSE IF decl.kind = "object" /\ ~decl.flag
         THEN (IF scanSubKeys(decl.sub) = "throw" THEN "throw"
               ELSE IF scanSubKeys(decl.sub) = "notfound" THEN "push" ELSE "skip")
    ELSE "push"

\* lines 188-204: one turn of the for..in loop: push the field, skip it, or
\* throw a TypeError (a property read of null or undefined)
fieldVerdict(decl) ==
    IF decl.kind = "null" \/ decl.kind = "undef" THEN "throw"
    ELSE IF decl.kind = "object" /\ ~decl.flag
         THEN (IF scanSubKeys(decl.sub) = "throw" THEN "throw"
               ELSE IF scanSubKeys(decl.sub) = "notfound" THEN "push" ELSE "skip")
    ELSE IF ~decl.flag THEN "push" ELSE "skip"

RECURSIVE fieldsFrom(_, _, _)
fieldsFrom(t, i, acc) ==
    IF i > Len(t) THEN [ok |-> TRUE, fields |-> acc]
    ELSE IF fieldVerdict(t[i].decl) = "throw" THEN [ok |-> FALSE, fields |-> <<>>]
    ELSE IF fieldVerdict(t[i].decl) = "push" THEN fieldsFrom(t, i + 1, Append(acc, t[i].name))
    ELSE fieldsFrom(t, i + 1, acc)

\* lines 185-208.  ok = FALSE: the call threw a TypeError
getIndexedFields(t) == fieldsFrom(t, 1, <<>>)

Range(s) == {s[i] : i \in 1..Len(s)}

(***************************************************************************)
(* Connection options.  An option value is a string; "" stands for every   *)
(* falsy value (undefined, null, ''), which `||` and `if` treat alike.     *)
(***************************************************************************)
Unset == ""

\* One schema may back several models.  r1 is a record of users, o1 one of
\* orders; Model is the model the single-model specifications run on.
Models == {"users", "orders"}
Model == "users"
Ids == {"r1", "o1"}
ModelOf(id) == IF id = "r1" THEN "users" ELSE "orders"
IdsOf(model) == {id \in Ids : ModelOf(id) = model}

\* the `options` argument of elmongo(schema, options)
PluginOptions ==
    {[host |-> "localhost", port |-> "9200", prefix |-> "qa", index |-> Unset, type |-> Unset,
      indexedFields |-> <<>>]}

\* helpers.mergeModelOptions: the options of one call resolved against the
\* model; a value given for the collection wins, the index and type fall
\* back to the collection's name (the index under the prefix, if any)
mergeModelOptions(o, model) ==
    [host |-> o.host, port |-> o.port, prefix |-> o.prefix,
     index |-> IF o.index # Unset THEN o.index
               ELSE IF o.prefix # Unset THEN o.prefix \o "-" \o model ELSE model,
     type |-> IF o.type # Unset THEN o.type ELSE model,
     indexedFields |-> o.indexedFields]

\* helpers.makeDocumentUri: {host}:{port}/{index}/{type}/{id}
makeDocumentUri(o, id) ==
    [host |-> o.host, port |-> o.port, index |-> o.index, type |-> o.type, id |-> id]

(***************************************************************************)
(* Operations.  One entry of ops is one call of index or unindex:          *)
(*   status  inflight   the request is with helpers.backOffRequest         *)
(*           responded  backOffRequest has its final (err, res, body)      *)
(*           done       the callback has run                               *)
(*           threw      the call raised before any request was made        *)
(***************************************************************************)
NoBody == [id |-> "", existed |-> FALSE]

\* the index holds no document of a record
NoDocument == [held |-> FALSE, version |-> 0]

Event(name, body, details) == [name |-> name, body |-> body, details |-> details]

NewOp(kind, method, id, o, ver, status) ==
    [kind |-> kind, method |-> method, id |-> id, url |-> makeDocumentUri(o, id),
     body |-> ver, fields |-> IF kind = "index" THEN o.indexedFields ELSE <<>>,
     status |-> status, sent |-> IF status = "inflight" THEN 1 ELSE 0, attempts |-> 0,
     order |-> 0, err |-> "none", resBody |-> NoBody, notified |-> <<>>, caller |-> ""]

\* lines 141-151: the callback of index.  The events it emits on the record
indexCallback(err, body) ==
    IF err # "none" THEN <<Event("error", NoBody, err)>>
    ELSE <<Event("elmongo-indexed", body, "none")>>

\* lines 171-181 with a document that was not found reported as an error
unindexCallbackNotFoundIsError(err, body) ==
    IF err # "none" THEN <<Event("error", NoBody, err)>>
    ELSE IF ~body.existed THEN <<Event("error", NoBody, "NotFound")>>
    ELSE <<Event("elmongo-unindexed", body, "none")>>

\* lines 171-181: the callback of unindex
unindexCallback(err, body) ==
    IF err # "none" THEN <<Event("error", NoBody, err)>>
    ELSE <<Event("elmongo-unindexed", body, "none")>>

(***************************************************************************)
(* The plugin and its hooks.                                               *)
(***************************************************************************)
Simple(flag) == [kind |-> "simple", flag |-> flag, sub |-> <<>>]
Object(flag, sub) == [kind |-> "object", flag |-> flag, sub |-> sub]
TreeOf(d1, d2) == <<[name |-> FieldNames[1], decl |-> d1], [name |-> FieldNames[2], decl |-> d2]>>

\* the schemas the plugin is attached to in Spec: a plain field beside
\* {type, es_no_index: true}, and a declaration with a null sub-key value
PluginTrees ==
    {TreeOf(Simple(FALSE), Object(TRUE, <<"plain", "plain">>)),
     TreeOf(Simple(FALSE), Object(FALSE, <<"plain", "null">>))}

\* lines 20-61: elmongo(schema, options).  A throw of getIndexedFields on
\* line 22 leaves the schema without methods and hooks.
Plugin ==
    /\ plugin = "none"
    /\ LET r == getIndexedFields(tree) IN
         IF r.ok
         THEN plugin' = "attached" /\ indexedFields' = r.fields
         ELSE plugin' = "failed" /\ UNCHANGED indexedFields
    /\ UNCHANGED <<tree, options, lifecycle, version, ops, esIndex, hookThrew, syncCalls,
                   lastModelSearch>>
    /\ UNCHANGED searchVars

\* lines 126-152 with the record serialized as it was before the save
indexPreviousVersion(o, id, ver, serializable) ==
    IF serializable
    THEN [op |-> NewOp("index", "PUT", id, o, ver - 1, "inflight"), threw |-> FALSE]
    ELSE [op |-> NewOp("index", "PUT", id, o, ver - 1, "threw"), threw |-> TRUE]

\* lines 126-152, up to the request: serializeModel raises for a record that
\* cannot be serialized; nothing catches it
index(o, id, ver, serializable) ==
    IF serializable
    THEN [op |-> NewOp("index", "PUT", id, o, ver, "inflight"), threw |-> FALSE]
    ELSE [op |-> NewOp("index", "PUT", id, o, ver, "threw"), threw |-> TRUE]

\* lines 159-170
unindex(o, id) == NewOp("unindex", "DELETE", id, o, 0, "inflight")

\* a save of the record by the primary store, then lines 44-48
Save(id, serializable) ==
    /\ plugin = "attached"
    /\ Len(ops) < MaxOps
    /\ lifecycle' = [lifecycle EXCEPT ![id] = "saved"]
    /\ version' = [version EXCEPT ![id] = @ + 1]
    /\ options' = [mergeModelOptions(options, ModelOf(id)) EXCEPT
                                                        !.indexedFields = indexedFields]
    /\ LET r == index(options', id, version'[id], serializable) IN
         /\ ops' = Append(ops, [r.op EXCEPT !.caller = "save"])
         /\ hookThrew' = (hookThrew \/ r.threw)
    /\ UNCHANGED <<tree, plugin, indexedFields, esIndex, syncCalls, lastModelSearch>>
    /\ UNCHANGED searchVars

\* a removal of the record by the primary store, then lines 49-52: the hook
\* has no check of the record's state
Remove(id) ==
    /\ plugin = "attached"
    /\ Len(ops) < MaxOps
    /\ lifecycle' = [lifecycle EXCEPT ![id] = "removed"]
    /\ options' = mergeModelOptions(options, ModelOf(id))
    /\ ops' = Append(ops, [unindex(options', id) EXCEPT !.caller = "remove"])
    /\ UNCHANGED <<tree, plugin, indexedFields, version, esIndex, hookThrew, syncCalls,
                   lastModelSearch>>
    /\ UNCHANGED searchVars

\* lines 56-59 with the record also removed from the primary store
DeleteFromIndexRemoving(id) ==
    /\ plugin = "attached"
    /\ Len(ops) < MaxOps
    /\ lifecycle' = [lifecycle EXCEPT ![id] = "removed"]
    /\ options' = mergeModelOptions(options, ModelOf(id))
    /\ ops' = Append(ops, [unindex(options', id) EXCEPT !.caller = "deleteFromIndex"])
    /\ UNCHANGED <<tree, plugin, indexedFields, version, esIndex, hookThrew,
                   syncCalls, lastModelSearch>>
    /\ UNCHANGED searchVars

\* lines 56-59
DeleteFromIndex(id) ==
    /\ plugin = "attached"
    /\ Len(ops) < MaxOps
    /\ options' = mergeModelOptions(options, ModelOf(id))
    /\ ops' = Append(ops, [unindex(options', id) EXCEPT !.caller = "deleteFromIndex"])
    /\ UNCHANGED <<tree, plugin, indexedFields, lifecycle, version, esIndex, hookThrew,
                   syncCalls, lastModelSearch>>
    /\ UNCHANGED searchVars

\* the options a caller passes to a direct call of record.index or
\* record.unindex: an index and a field set of its own choice
DirectOptions ==
    {[host |-> "localhost", port |-> "9200", prefix |-> Unset, index |-> "other",
      type |-> "users", indexedFields |-> <<FieldNames[2]>>]}

\* line 25: index is a method of every record; a direct call takes the
\* caller's options and field set, and leaves the closure and the primary
\* store alone.  An exception of serializeModel goes to the caller.
DirectIndex(id, o, serializable) ==
    /\ plugin = "attached"
    /\ Len(ops) < MaxOps
    /\ ops' = Append(ops, [index(o, id, version[id], serializable).op EXCEPT
                                                                !.caller = "direct"])
    /\ UNCHANGED <<tree, plugin, indexedFields, options, lifecycle, version, esIndex,
                   hookThrew, syncCalls, lastModelSearch>>
    /\ UNCHANGED searchVars

\* line 26: unindex is a method of every record
DirectUnindex(id, o) ==
    /\ plugin = "attached"
    /\ Len(ops) < MaxOps
    /\ ops' = Append(ops, [unindex(o, id) EXCEPT !.caller = "direct"])
    /\ UNCHANGED <<tree, plugin, indexedFields, options, lifecycle, version, esIndex,
                   hookThrew, syncCalls, lastModelSearch>>
    /\ UNCHANGED searchVars

\* the job sync is started with: the options and field set of line 32, no
\* record read yet
NewJob(model, o) ==
    [model |-> model, index |-> o.index, type |-> o.type, fields |-> o.indexedFields,
     state |-> "pending", total |-> 0, next |-> 1, inflight |-> 0,
     scanned |-> 0, indexed |-> 0, failed |-> 0, unserializable |-> {},
     cursorFailed |-> FALSE, aborted |-> FALSE, raised |-> FALSE,
     calledBack |-> FALSE]

\* lines 28-33: the field set travels to sync in options.indexedFields
Sync(model) ==
    /\ plugin = "attached"
    /\ Len(syncCalls) < MaxSyncs
    /\ options' = [mergeModelOptions(options, model) EXCEPT !.indexedFields = indexedFields]
    /\ syncCalls' = Append(syncCalls, NewJob(model, options'))
    /\ UNCHANGED <<tree, plugin, indexedFields, lifecycle, version, ops, esIndex, hookThrew,
                   lastModelSearch>>
    /\ UNCHANGED searchVars

\* helpers.makeTypeUri: {host}:{port}/{index}/{type}
makeTypeUri(o) == [host |-> o.host, port |-> o.port, index |-> o.index, type |-> o.type]

NoModelSearch ==
    [called |-> FALSE, model |-> "",
     uri |-> [host |-> Unset, port |-> Unset, index |-> Unset, type |-> Unset]]

\* lines 35-41: the search of one model
ModelSearch(model) ==
    /\ plugin = "attached"
    /\ options' = mergeModelOptions(options, model)
    /\ lastModelSearch' = [called |-> TRUE, model |-> model, uri |-> makeTypeUri(options')]
    /\ UNCHANGED <<tree, plugin, indexedFields, lifecycle, version, ops, esIndex, hookThrew,
                   syncCalls>>
    /\ UNCHANGED searchVars

(***************************************************************************)
(* The remote service and helpers.backOffRequest.  Requests in flight are  *)
(* served in any order.                                                    *)
(***************************************************************************)
\* the service executes the request: a PUT replaces the document, a DELETE
\* removes it; deleting a document that is not there succeeds.  `order` is the
\* request's place in the order the service executed requests in.
ServiceApply(i) ==
    /\ i \in 1..Len(ops)
    /\ ops[i].status = "inflight"
    /\ esIndex' = [esIndex EXCEPT ![ops[i].id] = IF ops[i].method = "PUT"
                                                 THEN [held |-> TRUE, version |-> ops[i].body]
                                                 ELSE NoDocument]
    /\ ops' = [ops EXCEPT ![i].status = "responded",
                          ![i].order = 1 + Cardinality({k \in 1..Len(ops) : ops[k].order > 0}),
                          ![i].resBody = [id |-> ops[i].id, existed |-> esIndex[ops[i].id].held]]
    /\ UNCHANGED <<tree, plugin, indexedFields, options, lifecycle, version, hookThrew,
                   syncCalls, lastModelSearch>>
    /\ UNCHANGED searchVars

\* a 4xx answer: not retried, handed to the callback as its err
ServiceReject(i) ==
    /\ i \in 1..Len(ops)
    /\ ops[i].status = "inflight"
    /\ ops' = [ops EXCEPT ![i].status = "responded", ![i].err = "ClientRequestError"]
    /\ UNCHANGED <<tree, plugin, indexedFields, options, lifecycle, version, esIndex,
                   hookThrew, syncCalls, lastModelSearch>>
    /\ UNCHANGED searchVars

\* a connection failure, a timeout or a 5xx answer: the request took no
\* effect and backOffRequest sends it again
ServiceTransient(i) ==
    /\ i \in 1..Len(ops)
    /\ ops[i].status = "inflight"
    /\ ops[i].attempts < MaxAttempts
    /\ ops' = [ops EXCEPT ![i].attempts = @ + 1, ![i].sent = @ + 1]
    /\ UNCHANGED <<tree, plugin, indexedFields, options, lifecycle, version, esIndex,
                   hookThrew, syncCalls, lastModelSearch>>
    /\ UNCHANGED searchVars

\* lines 141-151, 171-181 with the request sent again when err is set
CallbackResendingOnError(i) ==
    /\ i \in 1..Len(ops)
    /\ ops[i].status = "responded"
    /\ ops' = IF ops[i].err # "none"
              THEN [ops EXCEPT ![i].status = "inflight", ![i].sent = @ + 1]
              ELSE [ops EXCEPT ![i].status = "done",
                               ![i].notified = @ \o (IF ops[i].kind = "index"
                                                THEN indexCallback(ops[i].err, ops[i].resBody)
                                                ELSE unindexCallback(ops[i].err, ops[i].resBody))]
    /\ UNCHANGED <<tree, plugin, indexedFields, options, lifecycle, version, esIndex,
                   hookThrew, syncCalls, lastModelSearch>>
    /\ UNCHANGED searchVars

\* backOffRequest calls back: lines 141-151 (index), 171-181 (unindex)
Callback(i) ==
    /\ i \in 1..Len(ops)
    /\ ops[i].status = "responded"
    /\ ops' = [ops EXCEPT ![i].status = "done",
                          ![i].notified = @ \o (IF ops[i].kind = "index"
                                                THEN indexCallback(ops[i].err, ops[i].resBody)
                                                ELSE unindexCallback(ops[i].err, ops[i].resBody))]
    /\ UNCHANGED <<tree, plugin, indexedFields, options, lifecycle, version, esIndex,
                   hookThrew, syncCalls, lastModelSearch>>
    /\ UNCHANGED searchVars

(***************************************************************************)
(* The resynchronization started by schema.statics.sync (sync.js).  A job  *)
(* reads the collection's records one after the other from a cursor; each  *)
(* record is serialized and written, with at most MaxInFlight writes in    *)
(* flight.  A write in flight stands for its whole request/retry sequence:  *)
(* transient failures are retried without a cap, so nothing makes a write  *)
(* in flight end.  The caller may abort a running job.                     *)
(***************************************************************************)
\* the cursor is opened on a collection of n records: pending -> running
SyncOpen(j, n) ==
    /\ j \in 1..Len(syncCalls)
    /\ syncCalls[j].state = "pending"
    /\ syncCalls' = [syncCalls EXCEPT ![j].state = "running", ![j].total = n]
    /\ UNCHANGED <<tree, plugin, indexedFields, options, lifecycle, version, ops, esIndex,
                   hookThrew, lastModelSearch>>
    /\ UNCHANGED searchVars

\* what becomes of a record the job reads: its write is dispatched; or its
\* serialization fails and the record is counted as failed (the job of the
\* specification); or its serialization fails and the error is raised out of
\* the job, as index raises it on line 129.  Which of the last two sync.js
\* does cannot be read from the sources.
ReadOutcomes == {"written", "counted", "raised"}

\* the next record is read and serialized
SyncRead(j, outcome) ==
    /\ j \in 1..Len(syncCalls)
    /\ syncCalls[j].state = "running"
    /\ ~syncCalls[j].raised
    /\ syncCalls[j].next <= syncCalls[j].total
    /\ syncCalls[j].inflight < MaxInFlight
    /\ syncCalls' =
         IF outcome = "written"
         THEN [syncCalls EXCEPT ![j].next = @ + 1, ![j].scanned = @ + 1,
                                ![j].inflight = @ + 1]
         ELSE IF outcome = "counted"
         THEN [syncCalls EXCEPT ![j].next = @ + 1, ![j].scanned = @ + 1,
                                ![j].failed = @ + 1,
                                ![j].unserializable = @ \cup {syncCalls[j].next}]
         ELSE [syncCalls EXCEPT ![j].raised = TRUE]
    /\ UNCHANGED <<tree, plugin, indexedFields, options, lifecycle, version, ops, esIndex,
                   hookThrew, lastModelSearch>>
    /\ UNCHANGED searchVars

\* a write that fails for good ends the job
SyncWriteDoneFatal(j, ok) ==
    /\ j \in 1..Len(syncCalls)
    /\ syncCalls[j].state \in {"running", "failed"}
    /\ syncCalls[j].inflight > 0
    /\ syncCalls' =
         IF ok
         THEN [syncCalls EXCEPT ![j].inflight = @ - 1, ![j].indexed = @ + 1]
         ELSE [syncCalls EXCEPT ![j].inflight = @ - 1, ![j].failed = @ + 1,
                                ![j].state = "failed", ![j].calledBack = TRUE]
    /\ UNCHANGED <<tree, plugin, indexedFields, options, lifecycle, version, ops, esIndex,
                   hookThrew, lastModelSearch>>
    /\ UNCHANGED searchVars

\* a write in flight ends: indexed, or failed for good (a 4xx answer); the
\* writes dispatched before a cursor failure or an abort still end
SyncWriteDone(j, ok) ==
    /\ j \in 1..Len(syncCalls)
    /\ syncCalls[j].state \in {"running", "failed"}
    /\ syncCalls[j].inflight > 0
    /\ syncCalls' =
         IF ok
         THEN [syncCalls EXCEPT ![j].inflight = @ - 1, ![j].indexed = @ + 1]
         ELSE [syncCalls EXCEPT ![j].inflight = @ - 1, ![j].failed = @ + 1]
    /\ UNCHANGED <<tree, plugin, indexedFields, options, lifecycle, version, ops, esIndex,
                   hookThrew, lastModelSearch>>
    /\ UNCHANGED searchVars

\* the cursor fails before the last record is read: the job is failed
SyncCursorFail(j) ==
    /\ j \in 1..Len(syncCalls)
    /\ syncCalls[j].state = "running"
    /\ ~syncCalls[j].raised
    /\ syncCalls[j].next <= syncCalls[j].total
    /\ syncCalls' = [syncCalls EXCEPT ![j].state = "failed", ![j].cursorFailed = TRUE,
                                      ![j].calledBack = TRUE]
    /\ UNCHANGED <<tree, plugin, indexedFields, options, lifecycle, version, ops, esIndex,
                   hookThrew, lastModelSearch>>
    /\ UNCHANGED searchVars

\* the caller aborts a running job: no further write is issued, the job
\* reports failed with the progress made; the writes in flight still end
SyncAbort(j) ==
    /\ j \in 1..Len(syncCalls)
    /\ syncCalls[j].state = "running"
    /\ ~syncCalls[j].raised
    /\ syncCalls' = [syncCalls EXCEPT ![j].state = "failed", ![j].aborted = TRUE,
                                      ![j].calledBack = TRUE]
    /\ UNCHANGED <<tree, plugin, indexedFields, options, lifecycle, version, ops, esIndex,
                   hookThrew, lastModelSearch>>
    /\ UNCHANGED searchVars

\* every record has been read and every write has ended: the job completes
\* and its callback fires
SyncFinish(j) ==
    /\ j \in 1..Len(syncCalls)
    /\ syncCalls[j].state = "running"
    /\ ~syncCalls[j].raised
    /\ syncCalls[j].next > syncCalls[j].total
    /\ syncCalls[j].inflight = 0
    /\ syncCalls' = [syncCalls EXCEPT ![j].state = "completed", ![j].calledBack = TRUE]
    /\ UNCHANGED <<tree, plugin, indexedFields, options, lifecycle, version, ops, esIndex,
                   hookThrew, lastModelSearch>>
    /\ UNCHANGED searchVars

(***************************************************************************)
(* elmongo.search and elmongo.search.config.                               *)
(***************************************************************************)
\* helpers.mergeOptions normalises the options object (line 117); a host
\* may be given in a form that is not its normal form.  helpers.js is not
\* among the sources: which values have another normal form is not known,
\* and HostAsGiven stands for one that has.
HostAsGiven == "h2 as given"
normalise(v) == IF v = HostAsGiven THEN "h2" ELSE v

Hosts == {"h1", "h2", HostAsGiven}
Ports == {"9200", "9300"}
Prefixes == {"qa"}
Collections == {"users", "orders"}

\* the `options` argument of elmongo.search.config: any key may be missing
ConfigArgs ==
    [host : Hosts \cup {Unset}, port : Ports \cup {Unset}, prefix : Prefixes \cup {Unset}]

\* searchOpts.collections: has = FALSE when the key is absent
Queries ==
    {[has |-> FALSE, list |-> <<>>]}
    \cup {[has |-> TRUE, list |-> l] : l \in SeqsUpTo(Collections, MaxCollections)}

NullOptions == [set |-> FALSE, host |-> Unset, port |-> Unset, prefix |-> Unset]

\* helpers.mergeOptions: normalises an options object (null included); a
\* value that is present and non-empty is kept in its normal form, a missing
\* prefix is unset; without host or port the call fails with a
\* ConfigurationError (ok = FALSE)
mergeOptions(o) ==
    IF ~o.set \/ o.host = Unset \/ o.port = Unset
    THEN [ok |-> FALSE, value |-> NullOptions]
    ELSE [ok |-> TRUE, value |-> [set |-> TRUE, host |-> normalise(o.host),
                                  port |-> o.port, prefix |-> o.prefix]]

\* helpers.makeDomainUri: {host}:{port}
makeDomainUri(o) == o.host \o ":" \o o.port

\* Array.prototype.join
RECURSIVE join(_, _)
join(list, sep) ==
    IF Len(list) = 0 THEN ""
    ELSE IF Len(list) = 1 THEN list[1]
    ELSE list[1] \o sep \o join(Tail(list), sep)

SearchSuffix == "/_search?search_type=dfs_query_then_fetch&preference=_primary_first"

\* lines 110-116: the keys of the stored object, overwritten in place
overwriteInPlace(old, o) ==
    IF old.set
    THEN [set |-> TRUE,
          host |-> IF o.host # Unset THEN o.host ELSE old.host,
          port |-> IF o.port # Unset THEN o.port ELSE old.port,
          prefix |-> IF o.prefix # Unset THEN o.prefix ELSE old.prefix]
    ELSE old

\* lines 108-119: the value of elasticUrlOptions after config(o), and
\* whether the call threw.  Line 118 replaces the object the loop updated.
config(old, o) ==
    LET m == mergeOptions([set |-> TRUE, host |-> o.host, port |-> o.port,
                           prefix |-> o.prefix])
    IN  IF m.ok THEN [threw |-> FALSE, value |-> m.value]
        ELSE [threw |-> TRUE, value |-> overwriteInPlace(old, o)]

resolveCollectionsNoDash(prefix, q) ==
    IF prefix # Unset
    THEN IF q.has /\ Len(q.list) > 0
         THEN [defined |-> TRUE,
               list |-> [i \in 1..Len(q.list) |-> prefix \o q.list[i]],
               query |-> q]
         ELSE [defined |-> TRUE, list |-> <<prefix \o "*">>, query |-> q]
    ELSE IF ~q.has
         THEN [defined |-> FALSE, list |-> <<>>, query |-> [has |-> TRUE, list |-> <<"_all">>]]
         ELSE [defined |-> TRUE, list |-> q.list, query |-> q]

resolveCollectionsReversed(prefix, q) ==
    IF prefix # Unset
    THEN IF q.has /\ Len(q.list) > 0
         THEN [defined |-> TRUE,
               list |-> [i \in 1..Len(q.list) |-> prefix \o "-" \o q.list[i]],
               query |-> q]
         ELSE [defined |-> TRUE, list |-> <<prefix \o "*">>, query |-> q]
    ELSE IF ~q.has
         THEN [defined |-> FALSE, list |-> <<>>, query |-> [has |-> TRUE, list |-> <<"_all">>]]
         ELSE [defined |-> TRUE,
               list |-> [i \in 1..Len(q.list) |-> q.list[Len(q.list) + 1 - i]],
               query |-> q]

\* lines 73-96 with the resolved list stored in searchOpts.collections
resolveCollectionsInPlace(prefix, q) ==
    IF prefix # Unset
    THEN IF q.has /\ Len(q.list) > 0
         THEN [defined |-> TRUE,
               list |-> [i \in 1..Len(q.list) |-> prefix \o "-" \o q.list[i]],
               query |-> [has |-> TRUE,
                          list |-> [i \in 1..Len(q.list) |-> prefix \o "-" \o q.list[i]]]]
         ELSE [defined |-> TRUE, list |-> <<prefix \o "*">>,
               query |-> [has |-> TRUE, list |-> <<prefix \o "*">>]]
    ELSE IF ~q.has
         THEN [defined |-> FALSE, list |-> <<>>, query |-> [has |-> TRUE, list |-> <<"_all">>]]
         ELSE [defined |-> TRUE, list |-> q.list, query |-> q]

\* lines 73-96: the local `collections` after the branches (defined = FALSE:
\* it is undefined) and the caller's searchOpts.collections
resolveCollections(prefix, q) ==
    IF prefix # Unset
    THEN IF q.has /\ Len(q.list) > 0
         THEN [defined |-> TRUE,
               list |-> [i \in 1..Len(q.list) |-> prefix \o "-" \o q.list[i]],
               query |-> q]
         ELSE [defined |-> TRUE, list |-> <<prefix \o "*">>, query |-> q]
    ELSE IF ~q.has
         THEN [defined |-> FALSE, list |-> <<>>, query |-> [has |-> TRUE, list |-> <<"_all">>]]
         ELSE [defined |-> TRUE, list |-> q.list, query |-> q]

NoSearch ==
    [called |-> FALSE, before |-> NullOptions, prefix |-> Unset, domain |-> "",
     arg |-> [has |-> FALSE, list |-> <<>>],
     threw |-> "none", sent |-> FALSE, target |-> "", uri |-> ""]

\* lines 68-101 without line 70: the stored options are used as they are
searchWithoutMerge(eo, q) ==
    LET c == resolveCollections(eo.prefix, q)
        target == join(c.list, ",")
    IN  IF ~c.defined
        THEN [options |-> eo, query |-> c.query,
              call |-> [NoSearch EXCEPT !.called = TRUE, !.before = eo, !.arg = q,
                                        !.threw = "TypeError", !.prefix = eo.prefix,
                                        !.domain = makeDomainUri(eo)]]
        ELSE [options |-> eo, query |-> c.query,
              call |-> [called |-> TRUE, before |-> eo, prefix |-> eo.prefix,
                        domain |-> makeDomainUri(eo), arg |-> q,
                        threw |-> "none", sent |-> TRUE, target |-> target,
                        uri |-> makeDomainUri(eo) \o "/" \o target \o SearchSuffix]]

\* lines 68-101 with the prefix taken out of the stored options once it has
\* been applied to the collections
searchConsumingPrefix(eo, q) ==
    LET m == mergeOptions(eo)
        c == resolveCollections(m.value.prefix, q)
        target == join(c.list, ",")
    IN  IF ~m.ok
        THEN [options |-> eo, query |-> q,
              call |-> [NoSearch EXCEPT !.called = TRUE, !.before = eo, !.arg = q,
                                        !.threw = "ConfigurationError"]]
        ELSE IF ~c.defined
        THEN [options |-> [m.value EXCEPT !.prefix = Unset], query |-> c.query,
              call |-> [NoSearch EXCEPT !.called = TRUE, !.before = eo, !.arg = q,
                                        !.threw = "TypeError",
                                        !.prefix = m.value.prefix,
                                        !.domain = makeDomainUri(m.value)]]
        ELSE [options |-> [m.value EXCEPT !.prefix = Unset], query |-> c.query,
              call |-> [called |-> TRUE, before |-> eo, prefix |-> m.value.prefix,
                        domain |-> makeDomainUri(m.value), arg |-> q,
                        threw |-> "none", sent |-> TRUE, target |-> target,
                        uri |-> makeDomainUri(m.value) \o "/" \o target \o SearchSuffix]]

\* lines 68-101: what one call of elmongo.search does
search(eo, q) ==
    LET m == mergeOptions(eo)
        c == resolveCollections(m.value.prefix, q)
        target == join(c.list, ",")
    IN  IF ~m.ok
        THEN [options |-> eo, query |-> q,
              call |-> [NoSearch EXCEPT !.called = TRUE, !.before = eo, !.arg = q,
                                        !.threw = "ConfigurationError"]]
        ELSE IF ~c.defined
        THEN [options |-> m.value, query |-> c.query,
              call |-> [NoSearch EXCEPT !.called = TRUE, !.before = eo, !.arg = q,
                                        !.threw = "TypeError",
                                        !.prefix = m.value.prefix,
                                        !.domain = makeDomainUri(m.value)]]
        ELSE [options |-> m.value, query |-> c.query,
              call |-> [called |-> TRUE, before |-> eo, prefix |-> m.value.prefix,
                        domain |-> makeDomainUri(m.value), arg |-> q,
                        threw |-> "none", sent |-> TRUE, target |-> target,
                        uri |-> makeDomainUri(m.value) \o "/" \o target \o SearchSuffix]]

Search(q) ==
    /\ LET r == search(elasticUrlOptions, q) IN
         /\ elasticUrlOptions' = r.options
         /\ searchOpts' = r.query
         /\ lastSearch' = r.call
    /\ UNCHANGED lastConfig
    /\ UNCHANGED pluginVars

NoConfig ==
    [called |-> FALSE, before |-> NullOptions,
     arg |-> [host |-> Unset, port |-> Unset, prefix |-> Unset], threw |-> FALSE]

Config(o) ==
    /\ LET r == config(elasticUrlOptions, o) IN
         /\ elasticUrlOptions' = r.value
         /\ lastConfig' = [called |-> TRUE, before |-> elasticUrlOptions, arg |-> o,
                           threw |-> r.threw]
    /\ UNCHANGED <<searchOpts, lastSearch>>
    /\ UNCHANGED pluginVars

(***************************************************************************)
(* The specifications.                                                     *)
(***************************************************************************)
InitSearchVars ==
    /\ elasticUrlOptions = NullOptions
    /\ searchOpts = [has |-> FALSE, list |-> <<>>]
    /\ lastSearch = NoSearch
    /\ lastConfig = NoConfig

InitPluginVars ==
    /\ plugin = "none"
    /\ indexedFields = <<>>
    /\ options \in PluginOptions
    /\ lifecycle = [id \in Ids |-> "unsaved"]
    /\ version = [id \in Ids |-> 0]
    /\ ops = <<>>
    /\ esIndex = [id \in Ids |-> NoDocument]
    /\ hookThrew = FALSE
    /\ syncCalls = <<>>
    /\ lastModelSearch = NoModelSearch

\* a schema whose field selection succeeds
AttachingTree == TreeOf(Simple(FALSE), Object(TRUE, <<"plain", "plain">>))

Init == tree \in PluginTrees /\ InitPluginVars /\ InitSearchVars

Next ==
    \/ Plugin
    \/ \E id \in IdsOf(Model), serializable \in BOOLEAN : Save(id, serializable)
    \/ \E id \in IdsOf(Model) : Remove(id)
    \/ \E id \in IdsOf(Model) : DeleteFromIndex(id)
    \/ \E id \in IdsOf(Model), o \in DirectOptions, serializable \in BOOLEAN :
            DirectIndex(id, o, serializable)
    \/ \E id \in IdsOf(Model), o \in DirectOptions : DirectUnindex(id, o)
    \/ \E i \in 1..MaxOps : ServiceApply(i)
    \/ \E i \in 1..MaxOps : ServiceReject(i)
    \/ \E i \in 1..MaxOps : Callback(i)

\* the plugin on one model: hooks and direct calls, their requests, the
\* remote service answering each at once, the callbacks
Spec == Init /\ [][Next]_vars

InitRetry ==
    /\ tree = AttachingTree
    /\ InitPluginVars
    /\ InitSearchVars

NextRetry ==
    \/ Plugin
    \/ \E id \in IdsOf(Model) : Save(id, TRUE)
    \/ \E id \in IdsOf(Model) : DeleteFromIndex(id)
    \/ \E i \in 1..MaxOps : ServiceApply(i)
    \/ \E i \in 1..MaxOps : ServiceReject(i)
    \/ \E i \in 1..MaxOps : ServiceTransient(i)
    \/ \E i \in 1..MaxOps : Callback(i)

\* the request/retry sequences of the operations of one record
SpecRetry == InitRetry /\ [][NextRetry]_vars

InitFields ==
    /\ tree \in Trees
    /\ InitPluginVars
    /\ InitSearchVars

NextFields ==
    \/ Plugin
    \/ \E id \in IdsOf(Model), serializable \in BOOLEAN : Save(id, serializable)
    \/ \E id \in IdsOf(Model), o \in DirectOptions : DirectIndex(id, o, TRUE)
    \/ Sync(Model)

\* from a schema to the field set handed to the serializer, over every tree
SpecFields == InitFields /\ [][NextFields]_vars

InitSearch ==
    /\ tree = <<>>
    /\ InitPluginVars
    /\ InitSearchVars

NextSearch ==
    \/ \E o \in ConfigArgs : Config(o)
    \/ \E q \in Queries : Search(q)

SpecSearch == InitSearch /\ [][NextSearch]_vars

InitOptions ==
    /\ tree = AttachingTree
    /\ InitPluginVars
    /\ InitSearchVars

NextOptions ==
    \/ Plugin
    \/ \E id \in Ids, serializable \in BOOLEAN : Save(id, serializable)
    \/ \E id \in Ids : Remove(id)
    \/ \E id \in Ids : DeleteFromIndex(id)
    \/ \E id \in Ids, o \in DirectOptions : DirectIndex(id, o, TRUE)
    \/ \E id \in Ids, o \in DirectOptions : DirectUnindex(id, o)
    \/ \E model \in Models : Sync(model)
    \/ \E model \in Models : ModelSearch(model)

InitSync ==
    /\ tree = AttachingTree
    /\ InitPluginVars
    /\ InitSearchVars

\* the steps job j takes by itself: it opens the cursor, reads the next
\* record when a write slot is free, and finishes
SyncSteps(j) ==
    \/ \E n \in 0..MaxRecords : SyncOpen(j, n)
    \/ \E outcome \in ReadOutcomes : SyncRead(j, outcome)
    \/ SyncFinish(j)

NextSync ==
    \/ Plugin
    \/ Sync(Model)
    \/ \E j \in 1..MaxSyncs : SyncSteps(j)
    \/ \E j \in 1..MaxSyncs, ok \in BOOLEAN : SyncWriteDone(j, ok)
    \/ \E j \in 1..MaxSyncs : SyncCursorFail(j)
    \/ \E j \in 1..MaxSyncs : SyncAbort(j)

\* the resynchronizations of a collection
SpecSync == InitSync /\ [][NextSync]_vars

\* the job takes its own steps while it can.  Nothing is assumed of the
\* remote service, the cursor or the caller: a write may stay in flight for
\* ever, the cursor may fail, the caller may abort.
SpecSyncFair == SpecSync /\ \A j \in 1..MaxSyncs : WF_vars(SyncSteps(j))

\* the configurations and queries of SpecDefaults: a full configuration with
\* and without a prefix, one with a host as given and no port; collections
\* absent or given
DefaultsArgs ==
    {[host |-> "h1", port |-> "9200", prefix |-> "qa"],
     [host |-> "h2", port |-> "9300", prefix |-> Unset],
     [host |-> HostAsGiven, port |-> Unset, prefix |-> Unset]}
DefaultsQueries == {[has |-> FALSE, list |-> <<>>], [has |-> TRUE, list |-> <<"users">>]}

InitDefaults ==
    /\ tree = AttachingTree
    /\ InitPluginVars
    /\ InitSearchVars

NextDefaults ==
    \/ \E o \in DefaultsArgs : Config(o)
    \/ \E q \in DefaultsQueries : Search(q)
    \/ Plugin
    \/ \E id \in IdsOf(Model) : Save(id, TRUE)
    \/ \E id \in IdsOf(Model) : Remove(id)
    \/ \E id \in IdsOf(Model) : DeleteFromIndex(id)
    \/ \E id \in IdsOf(Model), o \in DirectOptions : DirectIndex(id, o, TRUE)
    \/ \E id \in IdsOf(Model), o \in DirectOptions : DirectUnindex(id, o)
    \/ Sync(Model)
    \/ ModelSearch(Model)

\* every call that could touch the stored defaults: configuration and search
\* beside the per-record and model-level calls of one model
SpecDefaults == InitDefaults /\ [][NextDefaults]_vars

\* one schema behind two models: the calls that resolve the closure's options
SpecOptions == InitOptions /\ [][NextOptions]_vars

(***************************************************************************)
(* Field selection (SpecFields).                                           *)
(***************************************************************************)
\* a top-level field declared as a nested object: an object whose own
\* es_no_index is not set
IsNestedObject(d) == d.kind = "object" /\ ~d.flag

AllFlagged(sub) == \A j \in 1..Len(sub) : sub[j] = "flagged"
SomeFlagged(sub) == \E j \in 1..Len(sub) : sub[j] = "flagged"

\* C1 as stated: a nested-object field (with sub-keys) is left out of the
\* field set if and only if every one of its sub-keys is flagged
\* es_no_index.
C1_ExcludedIffAllSubKeysFlagged ==
    plugin = "attached" =>
        \A i \in 1..Len(tree) :
            (IsNestedObject(tree[i].decl) /\ Len(tree[i].decl.sub) > 0) =>
                ((tree[i].name \notin Range(indexedFields)) <=> AllFlagged(tree[i].decl.sub))

\* C1 amended: the field set getIndexedFields returns leaves a nested-object
\* field out if and only if at least one of its sub-keys is flagged
\* es_no_index; it holds the field only when no sub-key is flagged.
C1_ExcludedIffSomeSubKeyFlagged ==
    plugin = "attached" =>
        \A i \in 1..Len(tree) :
            IsNestedObject(tree[i].decl) =>
                ((tree[i].name \notin Range(indexedFields)) <=> SomeFlagged(tree[i].decl.sub))

\* a nested object with a flagged and an unflagged sub-key was left out
C1_Witness ==
    /\ plugin = "attached"
    /\ \E i \in 1..Len(tree) :
         /\ IsNestedObject(tree[i].decl)
         /\ SomeFlagged(tree[i].decl.sub)
         /\ ~AllFlagged(tree[i].decl.sub)
         /\ tree[i].name \notin Range(indexedFields)

FlaggedNames == {tree[i].name : i \in {j \in 1..Len(tree) : tree[j].decl.flag}}

\* C2 as stated: a simple-value field is left out of the field set if and
\* only if it is itself flagged es_no_index, and no field whose declaration
\* is flagged is in the field set handed to the serializer by any index
\* operation or to sync.
C2_FlaggedFieldNeverSerialized ==
    /\ plugin = "attached" =>
         \A i \in 1..Len(tree) :
            tree[i].decl.kind = "simple" =>
                ((tree[i].name \notin Range(indexedFields)) <=> tree[i].decl.flag)
    /\ \A k \in 1..Len(ops) :
         ops[k].kind = "index" => Range(ops[k].fields) \cap FlaggedNames = {}
    /\ \A k \in 1..Len(syncCalls) : Range(syncCalls[k].fields) \cap FlaggedNames = {}

\* C2, amended: a simple-value field is left out of the field set if and
\* only if it is itself flagged es_no_index, and no field whose declaration
\* is flagged is in the field set handed to the serializer by an index
\* operation of the save hook or to sync.  (A direct call of record.index
\* serializes with the field set its caller passes.)
C2_FlaggedFieldNeverSerializedByPlugin ==
    /\ plugin = "attached" =>
         \A i \in 1..Len(tree) :
            tree[i].decl.kind = "simple" =>
                ((tree[i].name \notin Range(indexedFields)) <=> tree[i].decl.flag)
    /\ \A k \in 1..Len(ops) :
         ops[k].caller = "save" => Range(ops[k].fields) \cap FlaggedNames = {}
    /\ \A k \in 1..Len(syncCalls) : Range(syncCalls[k].fields) \cap FlaggedNames = {}

\* a schema with a flagged and an unflagged simple field: a save and a
\* sync were handed exactly the unflagged one
C2_Witness ==
    /\ Len(tree) = 2
    /\ tree[1].decl = Simple(TRUE)
    /\ tree[2].decl = Simple(FALSE)
    /\ \E k \in 1..Len(ops) : ops[k].caller = "save" /\ ops[k].fields = <<tree[2].name>>
    /\ \E k \in 1..Len(syncCalls) : syncCalls[k].fields = <<tree[2].name>>

(***************************************************************************)
(* Target resolution and configuration (SpecSearch).                       *)
(***************************************************************************)
\* the names of a list, each after the other with a comma between
RECURSIVE Listed(_)
Listed(names) ==
    IF Len(names) = 1 THEN names[1]
    ELSE Listed(SubSeq(names, 1, Len(names) - 1)) \o "," \o names[Len(names)]

NoCollections(q) == ~q.has \/ Len(q.list) = 0

\* the last search found host and port configured
Resolved == lastSearch.called /\ lastSearch.threw # "ConfigurationError"

\* C3: without a prefix and with collections empty or absent, the search
\* goes to the one target _all: {domain}/_all/_search?...
C3_NoPrefixNoCollectionsIsAll ==
    (Resolved /\ lastSearch.prefix = Unset /\ NoCollections(lastSearch.arg)) =>
        /\ lastSearch.sent
        /\ lastSearch.target = "_all"
        /\ lastSearch.uri = lastSearch.domain \o "/_all" \o SearchSuffix

\* C4: with a prefix, listed collections are each prefixed with prefix-
\* and comma-joined in the listed order; without collections the target is
\* the wildcard prefix*.
C4_PrefixedTargets ==
    (Resolved /\ lastSearch.prefix # Unset) =>
        /\ lastSearch.sent
        /\ lastSearch.target =
             IF NoCollections(lastSearch.arg) THEN lastSearch.prefix \o "*"
             ELSE Listed([i \in 1..Len(lastSearch.arg.list) |->
                             lastSearch.prefix \o "-" \o lastSearch.arg.list[i]])
        /\ lastSearch.uri = lastSearch.domain \o "/" \o lastSearch.target \o SearchSuffix
        /\ (lastSearch.prefix = "qa" /\ lastSearch.arg.has /\ lastSearch.arg.list = <<"users">>)
             => lastSearch.target = "qa-users"
        /\ (lastSearch.prefix = "qa" /\ ~lastSearch.arg.has) => lastSearch.target = "qa*"

\* prefix qa, collections users and orders: the request went to
\* qa-users,qa-orders
C4_Witness ==
    /\ lastSearch.sent
    /\ lastSearch.prefix = "qa"
    /\ lastSearch.arg = [has |-> TRUE, list |-> <<"users", "orders">>]
    /\ lastSearch.target = "qa-users,qa-orders"

\* C5: without a prefix, listed collections are the target as they are,
\* comma-joined in the listed order.
C5_UnprefixedTargets ==
    (Resolved /\ lastSearch.prefix = Unset /\ ~NoCollections(lastSearch.arg)) =>
        /\ lastSearch.sent
        /\ lastSearch.target = Listed(lastSearch.arg.list)
        /\ lastSearch.uri = lastSearch.domain \o "/" \o lastSearch.target \o SearchSuffix
        /\ lastSearch.arg.list = <<"users", "orders">> => lastSearch.target = "users,orders"

\* no prefix, collections users and orders: the request went to users,orders
C5_Witness ==
    /\ lastSearch.sent
    /\ lastSearch.prefix = Unset
    /\ lastSearch.arg = [has |-> TRUE, list |-> <<"users", "orders">>]
    /\ lastSearch.target = "users,orders"
    /\ lastSearch.uri = "h1:9200/users,orders" \o SearchSuffix

\* C6: a key that an earlier config call set and the last config call did
\* not name keeps its earlier value.
C6_ConfigKeepsUnnamedKeys ==
    (lastConfig.called /\ lastConfig.before.set) =>
        /\ lastConfig.arg.host = Unset => elasticUrlOptions.host = lastConfig.before.host
        /\ lastConfig.arg.port = Unset => elasticUrlOptions.port = lastConfig.before.port
        /\ lastConfig.arg.prefix = Unset => elasticUrlOptions.prefix = lastConfig.before.prefix

(***************************************************************************)
(* Index and unindex operations (Spec).                                    *)
(***************************************************************************)
Ended(op) == op.status = "done" \/ op.status = "threw"

\* C7: once a record is removed from the primary store and every request
\* its save and remove events started has completed (here: each one
\* successfully, and no other request was made), the index holds no
\* document with the record's id.
C7_RemovedRecordNotIndexed ==
    \A id \in Ids :
        (/\ lifecycle[id] = "removed"
         /\ \A k \in 1..Len(ops) :
               /\ ops[k].caller \in {"save", "remove"}
               /\ ops[k].status = "done" /\ ops[k].err = "none")
        => ~esIndex[id].held

\* C8: an operation that has ended has notified exactly once: the success
\* event with the response body, or error with the cause as its details.
C8_ExactlyOneNotification ==
    \A k \in 1..Len(ops) :
        Ended(ops[k]) =>
            /\ Len(ops[k].notified) = 1
            /\ \/ /\ ops[k].err = "none"
                  /\ ops[k].notified[1] =
                       Event(IF ops[k].kind = "index" THEN "elmongo-indexed"
                             ELSE "elmongo-unindexed", ops[k].resBody, "none")
               \/ /\ ops[k].err # "none"
                  /\ ops[k].notified[1] = Event("error", NoBody, ops[k].err)

\* C9: no index or unindex operation raises across the hook that started
\* it; every failure is an error notification.
C9_HookNeverThrows ==
    /\ ~hookThrew
    /\ \A k \in 1..Len(ops) : ops[k].caller # "direct" => ops[k].status # "threw"

\* C10: an unindex that the service carried out has notified
\* elmongo-unindexed with the response body, whether or not the document
\* was there: a second unindex of the same id ends as the first did.
C10_UnindexAbsentIsSuccess ==
    \A k \in 1..Len(ops) :
        (ops[k].kind = "unindex" /\ ops[k].status = "done" /\ ops[k].err = "none") =>
            ops[k].notified = <<Event("elmongo-unindexed", ops[k].resBody, "none")>>

\* two unindex operations of one id have ended; the first found the
\* document, the second found none, and both notified elmongo-unindexed
C10_Witness ==
    \E i, j \in 1..Len(ops) :
        /\ i < j
        /\ ops[i].kind = "unindex" /\ ops[j].kind = "unindex"
        /\ ops[i].id = ops[j].id
        /\ ops[i].status = "done" /\ ops[j].status = "done"
        /\ ops[i].resBody.existed /\ ~ops[j].resBody.existed
        /\ ops[i].notified[1].name = "elmongo-unindexed"
        /\ ops[j].notified[1].name = "elmongo-unindexed"

(***************************************************************************)
(* Search without configuration, and the caller's descriptor (SpecSearch). *)
(***************************************************************************)
\* C11: a search made while no configuration is stored fails with a
\* ConfigurationError and sends no request.
C11_UnconfiguredSearchFails ==
    (lastSearch.called /\ ~lastSearch.before.set) =>
        /\ lastSearch.threw = "ConfigurationError"
        /\ ~lastSearch.sent
        /\ lastSearch.uri = ""

\* C11: a search was made before any configuration and failed
C11_Witness ==
    /\ lastSearch.called
    /\ ~lastSearch.before.set
    /\ ~lastConfig.called
    /\ lastSearch.threw = "ConfigurationError"

\* C19: a search leaves searchOpts.collections as the caller gave it,
\* whenever a prefix is configured or collections is supplied; its one write
\* is ['_all'], without a prefix and with collections absent.
C19_SearchOptsUntouched ==
    lastSearch.called =>
        IF Resolved /\ lastSearch.prefix = Unset /\ ~lastSearch.arg.has
        THEN searchOpts = [has |-> TRUE, list |-> <<"_all">>]
        ELSE searchOpts = lastSearch.arg

\* C19: with prefix qa the request went to qa-users and the caller's list
\* is still users
C19_Witness ==
    /\ lastSearch.sent
    /\ lastSearch.prefix = "qa"
    /\ lastSearch.target = "qa-users"
    /\ searchOpts = [has |-> TRUE, list |-> <<"users">>]

(***************************************************************************)
(* Errors of field selection (SpecFields).                                 *)
(***************************************************************************)
\* C18: getIndexedFields raises no error, whatever the schema descriptor.
C18_SelectFieldsNeverThrows == plugin # "failed"

(***************************************************************************)
(* The options of a call (SpecOptions).                                    *)
(***************************************************************************)
\* the options the plugin was given, resolved against a model
ResolvedFor(model) == mergeModelOptions(CHOOSE o \in PluginOptions : TRUE, model)

\* C13: every index, unindex, sync and model-level search request the hooks
\* and statics make carries the index and type resolved for its own model
\* from the plugin's options; nothing resolved by an earlier call is reused.
\* (A direct call of record.index or record.unindex is given its options.)
C13_RequestsUseOwnModel ==
    /\ \A k \in 1..Len(ops) :
          ops[k].caller # "direct" =>
              /\ ops[k].url.index = ResolvedFor(ModelOf(ops[k].id)).index
              /\ ops[k].url.type = ResolvedFor(ModelOf(ops[k].id)).type
    /\ \A j \in 1..Len(syncCalls) :
          /\ syncCalls[j].index = ResolvedFor(syncCalls[j].model).index
          /\ syncCalls[j].type = ResolvedFor(syncCalls[j].model).type
    /\ lastModelSearch.called =>
          /\ lastModelSearch.uri.index = ResolvedFor(lastModelSearch.model).index
          /\ lastModelSearch.uri.type = ResolvedFor(lastModelSearch.model).type

C14_ClientErrorNotRetried ==
    \A k \in 1..Len(ops) :
        /\ ops[k].sent = IF ops[k].status = "threw" THEN 0 ELSE ops[k].attempts + 1
        /\ ops[k].err = "ClientRequestError" =>
              /\ ops[k].status \in {"responded", "done"}
              /\ ops[k].order = 0
              /\ ops[k].attempts = 0 => ops[k].sent = 1
              /\ ops[k].status = "done" =>
                    ops[k].notified = <<Event("error", NoBody, "ClientRequestError")>>

\* C14: an operation whose only request was answered 4xx has ended with
\* the error notification
C14_Witness ==
    \E k \in 1..Len(ops) :
        /\ ops[k].err = "ClientRequestError"
        /\ ops[k].status = "done"
        /\ ops[k].sent = 1
        /\ ops[k].notified = <<Event("error", NoBody, "ClientRequestError")>>

\* the version of the record the k-th operation, an index, was issued with:
\* every save raises the version by one and issues one index; a direct call
\* of index serializes the record as the last save left it
VersionCarried(k) ==
    Cardinality({m \in 1..k : ops[m].caller = "save" /\ ops[m].id = ops[k].id})

Executed(id) == {k \in 1..Len(ops) : ops[k].id = id /\ ops[k].order > 0}

LastExecuted(id) ==
    CHOOSE k \in Executed(id) : \A m \in Executed(id) : ops[m].order <= ops[k].order

\* C16: the index holds what the request the service executed last carried,
\* whatever the order the operations were issued in: nothing orders two
\* index operations of one record.
C16_LastExecutedWriteWins ==
    \A id \in Ids :
        esIndex[id] = IF Executed(id) = {} THEN NoDocument
                      ELSE IF ops[LastExecuted(id)].kind = "index"
                           THEN [held |-> TRUE, version |-> VersionCarried(LastExecuted(id))]
                           ELSE NoDocument

\* C16: two saves of one record; the earlier write was retried and executed
\* after the later one; both operations have notified `indexed` and the
\* index holds the older version
C16_Witness ==
    \E i, j \in 1..Len(ops) :
        /\ i < j
        /\ ops[i].id = ops[j].id
        /\ ops[i].caller = "save" /\ ops[j].caller = "save"
        /\ ops[i].status = "done" /\ ops[j].status = "done"
        /\ ops[i].notified = <<Event("elmongo-indexed", ops[i].resBody, "none")>>
        /\ ops[j].notified = <<Event("elmongo-indexed", ops[j].resBody, "none")>>
        /\ ops[i].attempts > 0
        /\ ops[i].order > ops[j].order
        /\ esIndex[ops[i].id] = [held |-> TRUE, version |-> VersionCarried(i)]
        /\ VersionCarried(i) < VersionCarried(j)
        /\ version[ops[i].id] = VersionCarried(j)

\* C17: a step that issues the operation of deleteFromIndex leaves the
\* record's lifecycle and version as they were and issues the unindex
\* request of the remove hook, a DELETE of the record's document; once the
\* operation has ended its notifications are those of unindex.
C17_DeleteFromIndexOnlyUnindexes ==
    [][/\ (Len(ops') = Len(ops) + 1 /\ ops'[Len(ops')].caller = "deleteFromIndex") =>
            LET op == ops'[Len(ops')] IN
              /\ lifecycle' = lifecycle
              /\ version' = version
              /\ op.method = "DELETE"
              /\ op.url = makeDocumentUri(options', op.id)
              /\ op = [unindex(options', op.id) EXCEPT !.caller = "deleteFromIndex"]
       /\ \A k \in 1..Len(ops') :
            (ops'[k].caller = "deleteFromIndex" /\ ops'[k].status = "done") =>
                ops'[k].notified = unindexCallback(ops'[k].err, ops'[k].resBody)]_vars

\* C17: a saved and indexed record was taken out of the index by
\* deleteFromIndex, stayed saved, and a later save has indexed it again
C17_Witness ==
    /\ Len(ops) = 3
    /\ ops[1].caller = "save" /\ ops[2].caller = "deleteFromIndex" /\ ops[3].caller = "save"
    /\ \A k \in 1..3 : ops[k].status = "done" /\ ops[k].order = k /\ ops[k].id = "r1"
    /\ ops[2].notified = <<Event("elmongo-unindexed", [id |-> "r1", existed |-> TRUE], "none")>>
    /\ ops[3].notified = <<Event("elmongo-indexed", ops[3].resBody, "none")>>
    /\ lifecycle["r1"] = "saved"
    /\ esIndex["r1"] = [held |-> TRUE, version |-> 2]

(***************************************************************************)
(* Resynchronization (SpecSyncFair).                                       *)
(***************************************************************************)
\* the job has attempted every record and is completed, with each record
\* counted once
CompletedInFull(j) ==
    /\ syncCalls[j].state = "completed"
    /\ syncCalls[j].scanned = syncCalls[j].total
    /\ syncCalls[j].indexed + syncCalls[j].failed = syncCalls[j].scanned
    /\ syncCalls[j].failed >= Cardinality(syncCalls[j].unserializable)

====
